---------------------------- MODULE Spec2Model ----------------------------
(***************************************************************************)
(* ProcedureDefinitionModel (openScope navigationLibrary/Procedure).       *)
(*                                                                         *)
(* One procedure object: its seven private fields, its lifecycle methods   *)
(* (constructor, init, reset) and its public queries.  JavaScript strings  *)
(* that the code inspects character by character (fix names, draw tokens)  *)
(* are sequences of one-character strings; property names and identifiers  *)
(* the code only compares are TLA+ strings.                                *)
(***************************************************************************)
EXTENDS Integers, Sequences, FiniteSets

\* this:     the fields of the procedure object (_body, _draw, _entryPoints,
\*           _exitPoints, _icao, _name, _procedureType)
\* phase:    "unconstructed" before `new`, "live" once the constructor has
\*           returned the object, "failed" when the constructor threw (the
\*           caller then holds no reference to the object)
\* lastCall: the last method called and its arguments
\* result:   what that call returned or threw
VARIABLES this, phase, lastCall, result

vars == <<this, phase, lastCall, result>>

(***************************************************************************)
(* Bounds of the model.                                                    *)
(***************************************************************************)
\* longest body segment of a raw procedure definition
MaxBodyLen == 2

(***************************************************************************)
(* JavaScript values.                                                      *)
(***************************************************************************)
\* the value `undefined` where the code puts it into an array of names; no
\* fix name is this sequence, names being sequences of single characters
Undefined == <<"undefined">>

\* PROCEDURE_TYPE enum of constants/aircraftConstants
PROCEDURE_TYPE == [SID |-> "SID", STAR |-> "STAR"]

\* a procedureType outside the enum
UnknownProcedureTypes == {"IAP"}

\* a fix descriptor that is a bare string
Str(s) == [isArray |-> FALSE, str |-> s]

\* a fix descriptor that is a [fixName, restriction] array
Arr(s, r) == [isArray |-> TRUE, elems |-> <<s, r>>]

\* lodash/isArray
_isArray(v) == v.isArray

\* String.prototype.indexOf for a one-character search string: the index
\* (from 0) of the first occurrence, -1 when there is none
indexOf(s, c) ==
    IF \E i \in 1..Len(s) : s[i] = c
    THEN (CHOOSE i \in 1..Len(s) : s[i] = c /\ \A j \in 1..(i - 1) : s[j] # c) - 1
    ELSE -1

\* String.prototype.replace(c, '') with a string pattern: only the first
\* occurrence of c is removed
replace(s, c) ==
    LET i == indexOf(s, c)
    IN  IF i = -1 THEN s
        ELSE SubSeq(s, 1, i) \o SubSeq(s, i + 2, Len(s))

\* membership of a sequence
Contains(s, x) == \E i \in 1..Len(s) : s[i] = x

\* lodash/uniq: the first occurrence of every value, in order
RECURSIVE _uniq(_)
_uniq(s) ==
    IF s = <<>> THEN <<>>
    ELSE LET front == _uniq(SubSeq(s, 1, Len(s) - 1))
             last == s[Len(s)]
         IN  IF Contains(front, last) THEN front ELSE Append(front, last)

(***************************************************************************)
(* Objects.  An object of the airport JSON is the sequence of its own      *)
(* properties in insertion order, which is the order Object.keys and       *)
(* lodash/forEach follow; every such object inherits from Object.prototype.*)
(***************************************************************************)
\* property names every plain object inherits
ObjectPrototypeProperties ==
    {"constructor", "toString", "valueOf", "hasOwnProperty"}

\* Object.keys
ObjectKeys(obj) == [i \in 1..Len(obj) |-> obj[i].key]

\* the set of own property names
OwnKeys(obj) == {obj[i].key : i \in 1..Len(obj)}

\* the `in` operator: own and inherited properties
In(key, obj) == key \in OwnKeys(obj) \/ key \in ObjectPrototypeProperties

\* obj[key] as handed to lodash/map: the array of an own property; an
\* inherited property is a function with no enumerable property of its own,
\* over which lodash/map yields no element
Get(obj, key) ==
    IF key \in OwnKeys(obj)
    THEN (CHOOSE p \in {obj[i] : i \in 1..Len(obj)} : p.key = key).segment
    ELSE <<>>

(***************************************************************************)
(* Raw procedure definitions of the airport JSON.                          *)
(***************************************************************************)
\* a restriction such as 'A80'; the model never looks into it
A80 == <<"A", "8", "0">>

\* fix descriptors of body segments: a plain fix, a restricted hold fix
\* and a fly-heading vector
BodyFixes ==
    {Str(<<"A">>), Arr(<<"@", "B">>, A80), Str(<<"#", "H">>)}

\* all sequences over S of length at most n
RECURSIVE SeqsUpTo(_, _)
SeqsUpTo(S, n) ==
    IF n = 0 THEN {<<>>}
    ELSE LET shorter == SeqsUpTo(S, n - 1)
         IN  shorter \cup {Append(s, x) : s \in shorter, x \in S}

\* values of data.body
BodySegments == SeqsUpTo(BodyFixes, MaxBodyLen)

\* segments of entry and exit points
PointSegments ==
    {<<Str(<<"^", "A">>)>>,
     <<Arr(<<"C">>, A80), Str(<<"^", "^", "B">>)>>}

\* runway identifiers, keys of data.rwy
RunwayNames == {"25L", "07R"}

\* published entry (STAR) and exit (SID) names
PointNames == {"KEPEC"}

\* objects with at most n properties named in K, in every insertion order
RECURSIVE ObjectsUpTo(_, _)
ObjectsUpTo(K, n) ==
    IF n = 0 THEN {<<>>}
    ELSE LET smaller == ObjectsUpTo(K, n - 1)
         IN  smaller \cup
             {Append(obj, [key |-> k, segment |-> seg]) :
                 obj \in {o \in smaller : Len(o) = n - 1},
                 k \in K, seg \in PointSegments}
\* distinct property names
WellFormed(obj) == Cardinality(OwnKeys(obj)) = Len(obj)

\* values of data.rwy
RunwayObjects == {obj \in ObjectsUpTo(RunwayNames, Cardinality(RunwayNames)) : WellFormed(obj)}

\* values of data.entryPoints and data.exitPoints
PointObjects == {obj \in ObjectsUpTo(PointNames, Cardinality(PointNames)) : WellFormed(obj)}

\* values of data.draw: no line at all, a flat array of tokens, and a 2D
\* array of two lines
DrawValues ==
    {<<>>,
     <<Str(<<"A">>), Str(<<"B">>)>>,
     <<[isArray |-> TRUE, elems |-> <<<<"A", "*">>, <<"C">>>>],
       [isArray |-> TRUE, elems |-> <<<<"B", "*">>, <<"A">>>>]>>}

\* raw definitions of SIDs
SidData ==
    [body : BodySegments, draw : DrawValues, icao : {"KEPEC3"},
     name : {"Kepec Three"}, rwy : RunwayObjects, exitPoints : PointObjects]

\* raw definitions of STARs
StarData ==
    [body : BodySegments, draw : DrawValues, icao : {"KEPEC3"},
     name : {"Kepec Three"}, entryPoints : PointObjects, rwy : RunwayObjects]

\* the raw definitions a loader hands over for a procedure type
RawData(type) == IF type = PROCEDURE_TYPE.STAR THEN StarData ELSE SidData

\* names asked of hasEntry, hasExit and getWaypointModelsForEntryAndExit
RequestedNames == RunwayNames \cup PointNames \cup {"constructor"}

(***************************************************************************)
(* The class.  Every method is an operator over the fields of the object;  *)
(* a method that can throw yields the fields it leaves behind together     *)
(* with its outcome.                                                       *)
(***************************************************************************)
\* the field defaults the constructor assigns before it calls init
Defaults ==
    [_body |-> <<>>, _draw |-> <<>>, _entryPoints |-> <<>>,
     _exitPoints |-> <<>>, _icao |-> "", _name |-> "", _procedureType |-> ""]

\* outcomes of a call
Returned(v) == [kind |-> "returned", value |-> v, consoleError |-> FALSE]
ReturnedUndefined(logged) ==
    [kind |-> "undefined", value |-> Undefined, consoleError |-> logged]
Threw == [kind |-> "threw", value |-> "TypeError", consoleError |-> FALSE]
NoResult == [kind |-> "none", value |-> Undefined, consoleError |-> FALSE]

\* new ProcedureWaypointModel(fix): the waypoint built from one descriptor
ProcedureWaypointModel(waypoint) == [fix |-> waypoint]

\* a SID initialized the way a STAR reads its runways
initSidWithRunwaysAsExits(o, data) ==
    [o EXCEPT !._entryPoints = data.exitPoints, !._exitPoints = data.rwy]

_initEntriesAndExitsForSid(o, data) ==
    [o EXCEPT !._entryPoints = data.rwy, !._exitPoints = data.exitPoints]

_initEntriesAndExitsForStar(o, data) ==
    [o EXCEPT !._entryPoints = data.entryPoints, !._exitPoints = data.rwy]

\* init: the common fields are assigned before the type is looked at
init(o, type, data) ==
    LET assigned == [o EXCEPT !._body = data.body, !._draw = data.draw,
                              !._icao = data.icao, !._name = data.name,
                              !._procedureType = type]
    IN  IF type = PROCEDURE_TYPE.SID
        THEN [this |-> _initEntriesAndExitsForSid(assigned, data), threw |-> FALSE]
        ELSE IF type = PROCEDURE_TYPE.STAR
        THEN [this |-> _initEntriesAndExitsForStar(assigned, data), threw |-> FALSE]
        ELSE [this |-> assigned, threw |-> TRUE]

\* a reset that forgets the spoken name
resetKeepingName(o) ==
    [o EXCEPT !._body = <<>>, !._draw = <<>>, !._entryPoints = <<>>,
              !._exitPoints = <<>>, !._icao = "", !._procedureType = ""]

reset(o) ==
    [o EXCEPT !._body = <<>>, !._draw = <<>>, !._entryPoints = <<>>,
              !._exitPoints = <<>>, !._icao = "", !._name = "",
              !._procedureType = ""]

_getFixNameFromRestrictedFixArray(restrictedFix) ==
    LET fix == IF _isArray(restrictedFix)
               THEN restrictedFix.elems[1]
               ELSE restrictedFix.str
    IN  IF indexOf(fix, "#") # -1
        THEN Undefined
        ELSE replace(replace(fix, "^"), "@")

\* lodash/map of a segment through _getFixNameFromRestrictedFixArray
FixNamesOf(segment) ==
    [i \in 1..Len(segment) |-> _getFixNameFromRestrictedFixArray(segment[i])]

_getFixNamesFromBody(o) == FixNamesOf(o._body)

\* the forEach loop of _getFixNamesFromEntries and _getFixNamesFromExits
\* over the first n properties of obj
RECURSIVE FixNamesOfSegments(_, _)
FixNamesOfSegments(obj, n) ==
    IF n = 0 THEN <<>>
    ELSE FixNamesOfSegments(obj, n - 1)
         \o FixNamesOf(obj[n].segment)

_getFixNamesFromEntries(o) ==
    _uniq(FixNamesOfSegments(o._entryPoints, Len(o._entryPoints)))

_getFixNamesFromExits(o) ==
    _uniq(FixNamesOfSegments(o._exitPoints, Len(o._exitPoints)))

\* fixList.concat(lineSegment): the elements of an array, or the one value
Concat(fixList, lineSegment) ==
    fixList \o (IF _isArray(lineSegment) THEN lineSegment.elems
                ELSE <<lineSegment.str>>)

\* this._draw.reduce(concat) without initial value over the first n lines:
\* the first line is the initial accumulator
RECURSIVE ReduceDraw(_, _)
ReduceDraw(d, n) ==
    IF n = 1 THEN d[1].elems
    ELSE Concat(ReduceDraw(d, n - 1), d[n])

removeAsterisk(fixName) == replace(fixName, "*")

_getFixNamesFromDraw(o) ==
    LET drawFixNames == ReduceDraw(o._draw, Len(o._draw))
    IN  [i \in 1..Len(drawFixNames) |-> removeAsterisk(drawFixNames[i])]

\* the guard of getAllFixNamesInUse: _isArray(this._draw[0])
FirstDrawLineIsArray(o) == Len(o._draw) > 0 /\ _isArray(o._draw[1])

\* a guard that looks at the first line only when there is one
getAllFixNamesInUseOfAnyDraw(o) ==
    IF Len(o._draw) > 0 /\ ~_isArray(o._draw[1])
    THEN Threw
    ELSE Returned(_uniq(_getFixNamesFromEntries(o) \o _getFixNamesFromBody(o)
                        \o _getFixNamesFromExits(o)
                        \o (IF Len(o._draw) > 0 THEN _getFixNamesFromDraw(o)
                            ELSE <<>>)))

getAllFixNamesInUse(o) ==
    IF ~FirstDrawLineIsArray(o)
    THEN Threw
    ELSE Returned(_uniq(_getFixNamesFromEntries(o) \o _getFixNamesFromBody(o)
                        \o _getFixNamesFromExits(o) \o _getFixNamesFromDraw(o)))

\* getRandomExitPoint with _random having drawn randomIndex (from 0)
getRandomExitPoint(o, randomIndex) ==
    LET exitNames == ObjectKeys(o._exitPoints)
    IN  IF randomIndex + 1 \in 1..Len(exitNames)
        THEN Returned(exitNames[randomIndex + 1])
        ELSE ReturnedUndefined(FALSE)

\* the values _random(0, maxIndex) can draw; lodash swaps the limits when
\* maxIndex is -1
RandomIndices(o) ==
    LET maxIndex == Len(o._exitPoints) - 1
    IN  IF maxIndex < 0 THEN maxIndex..0 ELSE 0..maxIndex

\* lodash/map of a segment through new ProcedureWaypointModel
WaypointsOf(segment) ==
    [i \in 1..Len(segment) |-> ProcedureWaypointModel(segment[i])]

_generateWaypointsForBody(o) == WaypointsOf(o._body)

_generateWaypointsForEntry(o, entryPoint) ==
    IF ~In(entryPoint, o._entryPoints) THEN Threw
    ELSE Returned(WaypointsOf(Get(o._entryPoints, entryPoint)))

_generateWaypointsForExit(o, exitPoint) ==
    IF ~In(exitPoint, o._exitPoints) THEN Threw
    ELSE Returned(WaypointsOf(Get(o._exitPoints, exitPoint)))

\* the exit waypoints spread before the body waypoints
getWaypointModelsExitBeforeBody(o, entry, exit) ==
    IF ~In(entry, o._entryPoints) THEN ReturnedUndefined(TRUE)
    ELSE IF ~In(exit, o._exitPoints) THEN ReturnedUndefined(TRUE)
    ELSE LET entryWaypointModels == _generateWaypointsForEntry(o, entry)
             bodyWaypointModels == _generateWaypointsForBody(o)
             exitWaypointModels == _generateWaypointsForExit(o, exit)
         IN  IF entryWaypointModels.kind = "threw" THEN Threw
             ELSE IF exitWaypointModels.kind = "threw" THEN Threw
             ELSE Returned(entryWaypointModels.value
                           \o exitWaypointModels.value
                           \o bodyWaypointModels)

getWaypointModelsForEntryAndExit(o, entry, exit) ==
    IF ~In(entry, o._entryPoints) THEN ReturnedUndefined(TRUE)
    ELSE IF ~In(exit, o._exitPoints) THEN ReturnedUndefined(TRUE)
    ELSE LET entryWaypointModels == _generateWaypointsForEntry(o, entry)
             bodyWaypointModels == _generateWaypointsForBody(o)
             exitWaypointModels == _generateWaypointsForExit(o, exit)
         IN  IF entryWaypointModels.kind = "threw" THEN Threw
             ELSE IF exitWaypointModels.kind = "threw" THEN Threw
             ELSE Returned(entryWaypointModels.value
                           \o bodyWaypointModels
                           \o exitWaypointModels.value)

hasEntry(o, entryName) == In(entryName, o._entryPoints)

hasExit(o, exitName) == In(exitName, o._exitPoints)

(***************************************************************************)
(* The calls a client makes.                                               *)
(***************************************************************************)
Call(op, args) == [op |-> op, args |-> args]

ProcedureTypes ==
    {PROCEDURE_TYPE.SID, PROCEDURE_TYPE.STAR} \cup UnknownProcedureTypes

Init ==
    /\ this = Defaults
    /\ phase = "unconstructed"
    /\ lastCall = Call("none", <<>>)
    /\ result = NoResult

\* new ProcedureDefinitionModel(type, data) with data defined
New ==
    /\ phase = "unconstructed"
    /\ \E type \in ProcedureTypes : \E data \in RawData(type) :
          LET r == init(Defaults, type, data)
          IN  /\ this' = r.this
              /\ phase' = IF r.threw THEN "failed" ELSE "live"
              /\ result' = IF r.threw THEN Threw ELSE Returned(<<>>)
              /\ lastCall' = Call("constructor", <<type, data>>)

\* new ProcedureDefinitionModel(type): the constructor throws before it
\* assigns any field
NewWithoutData ==
    /\ phase = "unconstructed"
    /\ \E type \in ProcedureTypes :
          /\ this' = Defaults
          /\ phase' = "failed"
          /\ result' = Threw
          /\ lastCall' = Call("constructor", <<type>>)

\* init(type, data) on the object; its owner initializes again only a
\* procedure it has reset
CallInit ==
    /\ phase = "live"
    /\ this = reset(this)
    /\ \E type \in ProcedureTypes : \E data \in RawData(type) :
          LET r == init(this, type, data)
          IN  /\ this' = r.this
              /\ result' = IF r.threw THEN Threw ELSE Returned(<<>>)
              /\ lastCall' = Call("init", <<type, data>>)
    /\ UNCHANGED phase

\* init(type) on the object: reading data.body throws
CallInitWithoutData ==
    /\ phase = "live"
    /\ this = reset(this)
    /\ \E type \in ProcedureTypes :
          /\ result' = Threw
          /\ lastCall' = Call("init", <<type>>)
    /\ UNCHANGED <<this, phase>>

CallReset ==
    /\ phase = "live"
    /\ this' = reset(this)
    /\ result' = Returned(<<>>)
    /\ lastCall' = Call("reset", <<>>)
    /\ UNCHANGED phase

CallGetAllFixNamesInUse ==
    /\ phase = "live"
    /\ result' = getAllFixNamesInUse(this)
    /\ lastCall' = Call("getAllFixNamesInUse", <<>>)
    /\ UNCHANGED <<this, phase>>

CallGetRandomExitPoint ==
    /\ phase = "live"
    /\ \E randomIndex \in RandomIndices(this) :
          result' = getRandomExitPoint(this, randomIndex)
    /\ lastCall' = Call("getRandomExitPoint", <<>>)
    /\ UNCHANGED <<this, phase>>

CallGetWaypointModelsForEntryAndExit ==
    /\ phase = "live"
    /\ \E entry \in RequestedNames : \E exit \in RequestedNames :
          /\ result' = getWaypointModelsForEntryAndExit(this, entry, exit)
          /\ lastCall' = Call("getWaypointModelsForEntryAndExit", <<entry, exit>>)
    /\ UNCHANGED <<this, phase>>

CallHasEntry ==
    /\ phase = "live"
    /\ \E entryName \in RequestedNames :
          /\ result' = Returned(hasEntry(this, entryName))
          /\ lastCall' = Call("hasEntry", <<entryName>>)
    /\ UNCHANGED <<this, phase>>

CallHasExit ==
    /\ phase = "live"
    /\ \E exitName \in RequestedNames :
          /\ result' = Returned(hasExit(this, exitName))
          /\ lastCall' = Call("hasExit", <<exitName>>)
    /\ UNCHANGED <<this, phase>>

Next ==
    \/ New
    \/ NewWithoutData
    \/ CallInit
    \/ CallInitWithoutData
    \/ CallReset
    \/ CallGetAllFixNamesInUse
    \/ CallGetRandomExitPoint
    \/ CallGetWaypointModelsForEntryAndExit
    \/ CallHasEntry
    \/ CallHasExit

Spec == Init /\ [][Next]_vars

(***************************************************************************)
(* Vocabulary of the properties.                                           *)
(***************************************************************************)
\* the segment stored under an own property name
SegmentOf(obj, key) == obj[CHOOSE i \in 1..Len(obj) : obj[i].key = key].segment

\* the fields at their documented empty defaults
EmptyProcedure ==
    [_body |-> <<>>, _draw |-> <<>>, _entryPoints |-> <<>>,
     _exitPoints |-> <<>>, _icao |-> "", _name |-> "", _procedureType |-> ""]

\* the name of a fix descriptor
NameOf(d) == IF d.isArray THEN d.elems[1] ELSE d.str

\* s without any of the characters in cs
WithoutAll(s, cs) == SelectSeq(s, LAMBDA c : c \notin cs)

\* the descriptors of every segment of an object, in property order
RECURSIVE DescriptorsOf(_, _)
DescriptorsOf(obj, n) ==
    IF n = 0 THEN <<>> ELSE DescriptorsOf(obj, n - 1) \o obj[n].segment

\* the descriptors of the entry, body and exit segments, in that order
RoutedDescriptors(o) ==
    DescriptorsOf(o._entryPoints, Len(o._entryPoints)) \o o._body
    \o DescriptorsOf(o._exitPoints, Len(o._exitPoints))

\* the bare names of descriptors: a name with '#' gives none, any other
\* name is given without its '^' and '@'
RECURSIVE BareNames(_)
BareNames(ds) ==
    IF ds = <<>> THEN <<>>
    ELSE LET n == NameOf(ds[Len(ds)])
             front == BareNames(SubSeq(ds, 1, Len(ds) - 1))
         IN  IF Contains(n, "#") THEN front
             ELSE Append(front, WithoutAll(n, {"^", "@"}))

\* a draw token without its trailing '*'
WithoutTrailingAsterisk(t) ==
    IF Len(t) > 0 /\ t[Len(t)] = "*" THEN SubSeq(t, 1, Len(t) - 1) ELSE t

\* every token of every draw line, in order
RECURSIVE DrawTokens(_, _)
DrawTokens(d, n) ==
    IF n = 0 THEN <<>> ELSE DrawTokens(d, n - 1) \o d[n].elems

\* draw is a two-level structure
TwoLevel(d) == Len(d) > 0 /\ \A i \in 1..Len(d) : d[i].isArray

\* no value occurs twice
NoDuplicates(s) == \A i, j \in 1..Len(s) : s[i] = s[j] => i = j

\* the values of s in the order of their first occurrences
FirstOccurrences(s) ==
    SelectSeq([i \in 1..Len(s) |-> [v |-> s[i],
                                     first |-> \A j \in 1..(i - 1) : s[j] # s[i]]],
              LAMBDA e : e.first)

Values(es) == [i \in 1..Len(es) |-> es[i].v]

Asked(op) == lastCall.op = op

(***************************************************************************)
(* Properties.                                                             *)
(***************************************************************************)
\* C1: for an entry that is a key of entryPoints and an exit that is a key
\* of exitPoints, getWaypointModelsForEntryAndExit returns one waypoint per
\* fix descriptor: those of the entry segment, then those of the body, then
\* those of the exit segment.
WaypointsAreEntryBodyExit ==
    (/\ Asked("getWaypointModelsForEntryAndExit")
     /\ lastCall.args[1] \in OwnKeys(this._entryPoints)
     /\ lastCall.args[2] \in OwnKeys(this._exitPoints))
    => LET entrySeq == SegmentOf(this._entryPoints, lastCall.args[1])
           exitSeq == SegmentOf(this._exitPoints, lastCall.args[2])
           all == entrySeq \o this._body \o exitSeq
       IN  /\ result.kind = "returned"
           /\ Len(result.value) = Len(entrySeq) + Len(this._body) + Len(exitSeq)
           /\ \A i \in 1..Len(all) :
                 result.value[i] = ProcedureWaypointModel(all[i])

\* a query with valid keys whose three parts are all non-empty and differ
WaypointsWitness ==
    /\ Asked("getWaypointModelsForEntryAndExit")
    /\ lastCall.args[1] \in OwnKeys(this._entryPoints)
    /\ lastCall.args[2] \in OwnKeys(this._exitPoints)
    /\ result.kind = "returned"
    /\ Len(this._body) = MaxBodyLen
    /\ SegmentOf(this._entryPoints, lastCall.args[1])
         # SegmentOf(this._exitPoints, lastCall.args[2])
    /\ Len(result.value) > MaxBodyLen + 2

\* C2: getWaypointModelsForEntryAndExit with an entry that is no key of
\* entryPoints, or an exit that is no key of exitPoints, yields no result
\* and does not throw; it returns waypoints only when both are keys.
InvalidKeysYieldNoResult ==
    Asked("getWaypointModelsForEntryAndExit")
    => LET valid == /\ lastCall.args[1] \in OwnKeys(this._entryPoints)
                    /\ lastCall.args[2] \in OwnKeys(this._exitPoints)
       IN  /\ result.kind # "threw"
           /\ ~valid => result.kind = "undefined"
           /\ result.kind = "returned" => valid

\* C3: hasEntry(k) is true exactly when k is a key of entryPoints, hasExit(k)
\* exactly when k is a key of exitPoints.
HasIsKeyMembership ==
    /\ Asked("hasEntry")
       => (result.value <=> lastCall.args[1] \in OwnKeys(this._entryPoints))
    /\ Asked("hasExit")
       => (result.value <=> lastCall.args[1] \in OwnKeys(this._exitPoints))

\* C4: every element of the sequence getAllFixNamesInUse returns is a fix
\* name; a descriptor whose name contains '#' leaves no element in it.
DirectivesContributeNothing ==
    (Asked("getAllFixNamesInUse") /\ result.kind = "returned")
    => \A i \in 1..Len(result.value) : result.value[i] # Undefined

\* C5: with a two-level draw, getAllFixNamesInUse returns, without
\* duplicates and in order of first occurrence, the names of the entry
\* segments, of the body, of the exit segments, and the draw tokens without
\* their trailing '*'.
FixNamesAreDeduplicatedUnion ==
    (Asked("getAllFixNamesInUse") /\ TwoLevel(this._draw))
    => /\ result.kind = "returned"
       /\ NoDuplicates(result.value)
       /\ LET tokens == DrawTokens(this._draw, Len(this._draw))
          IN  result.value =
                Values(FirstOccurrences(
                    BareNames(RoutedDescriptors(this))
                    \o [i \in 1..Len(tokens) |->
                           WithoutTrailingAsterisk(tokens[i])]))

\* C6: getAllFixNamesInUse throws, returns no names and changes no field
\* whenever the first element of draw is not an array, which includes an
\* empty draw.
MalformedDrawThrows ==
    [][Asked("getAllFixNamesInUse")'
       => /\ this' = this
          /\ (Len(this._draw) = 0 \/ ~this._draw[1].isArray)
             => result' = [kind |-> "threw", value |-> "TypeError",
                           consoleError |-> FALSE]]_vars

\* getAllFixNamesInUse has thrown on a flat draw
MalformedDrawWitness ==
    /\ Asked("getAllFixNamesInUse")
    /\ result.kind = "threw"
    /\ Len(this._draw) > 0
    /\ ~this._draw[1].isArray

\* C7: a SID takes its entry points from rwy and its exit points from
\* exitPoints, a STAR its entry points from entryPoints and its exit points
\* from rwy; so the entries of a SID and the exits of a STAR are runways,
\* and a SID asked for (runway, exit name) gives the fixes of the runway,
\* of the body and of the exit.
TypeDecidesEntriesAndExits ==
    /\ ((Asked("constructor") \/ Asked("init")) /\ result.kind = "returned")
       => LET type == lastCall.args[1]
              data == lastCall.args[2]
          IN  /\ type \in {"SID", "STAR"}
              /\ type = "SID" => /\ this._entryPoints = data.rwy
                                 /\ this._exitPoints = data.exitPoints
              /\ type = "STAR" => /\ this._entryPoints = data.entryPoints
                                  /\ this._exitPoints = data.rwy
    /\ (phase = "live" /\ this._procedureType = "SID")
       => /\ OwnKeys(this._entryPoints) \subseteq RunwayNames
          /\ OwnKeys(this._exitPoints) \subseteq PointNames
          /\ (/\ Asked("getWaypointModelsForEntryAndExit")
              /\ lastCall.args[1] \in RunwayNames \cap OwnKeys(this._entryPoints)
              /\ lastCall.args[2] \in PointNames \cap OwnKeys(this._exitPoints))
             => result.value =
                  WaypointsOf(SegmentOf(this._entryPoints, lastCall.args[1])
                              \o this._body
                              \o SegmentOf(this._exitPoints, lastCall.args[2]))
    /\ (phase = "live" /\ this._procedureType = "STAR")
       => /\ OwnKeys(this._entryPoints) \subseteq PointNames
          /\ OwnKeys(this._exitPoints) \subseteq RunwayNames

\* a SID constructed from runways and exit points that differ
SidWitness ==
    /\ Asked("constructor")
    /\ result.kind = "returned"
    /\ lastCall.args[1] = "SID"
    /\ Len(this._entryPoints) = 2
    /\ Len(this._exitPoints) = 1
    /\ this._entryPoints[1].segment # this._exitPoints[1].segment

\* C8: after reset every field holds its empty default, and a second reset
\* changes nothing.
ResetGivesDefaults ==
    /\ Asked("reset") => this = EmptyProcedure
    /\ phase = "live" => /\ reset(this) = EmptyProcedure
                         /\ reset(reset(this)) = reset(this)

\* a procedure that was populated and has been reset
ResetWitness ==
    /\ Asked("reset")
    /\ phase = "live"
    /\ this._icao = ""
    /\ this._body = <<>>

\* C9: a descriptor of an entry, body or exit segment whose name has no '#'
\* contributes its name without any '^' and '@', so no name of these
\* segments in the result contains '^' or '@'.
FlagsAreStripped ==
    (Asked("getAllFixNamesInUse") /\ result.kind = "returned")
    => /\ \A i \in 1..Len(RoutedDescriptors(this)) :
             LET n == NameOf(RoutedDescriptors(this)[i])
             IN  ~Contains(n, "#")
                 => Contains(result.value, WithoutAll(n, {"^", "@"}))
       /\ LET names == _getFixNamesFromEntries(this)
                       \o _getFixNamesFromBody(this)
                       \o _getFixNamesFromExits(this)
          IN  \A i \in 1..Len(names) :
                 ~Contains(names[i], "^") /\ ~Contains(names[i], "@")

\* C10: the constructor and init throw when the data is not defined or the
\* type is neither SID nor STAR, and a call that has thrown has populated
\* none of body, draw, icao, name and procedureType.
FailedInitLeavesNothing ==
    (Asked("constructor") \/ Asked("init"))
    => /\ result.kind = "threw"
          <=> (Len(lastCall.args) = 1 \/ lastCall.args[1] \notin {"SID", "STAR"})
       /\ result.kind = "threw"
          => /\ this._body = <<>>
             /\ this._draw = <<>>
             /\ this._icao = ""
             /\ this._name = ""
             /\ this._procedureType = ""

=============================================================================
